---- MODULE Spec2Model ----
(***************************************************************************)
(* A model of the base64 codec of b64.c: b64enclen, b64enc, b64declen and  *)
(* b64dec.  Characters and bytes are their codes 0..255.  A C buffer is a  *)
(* sequence whose element k+1 is the C element [k]; its length is the      *)
(* length the caller declares.  The two loops are followed one iteration   *)
(* per step.                                                               *)
(***************************************************************************)
EXTENDS Integers, Sequences, FiniteSets, TLC

\* ---------------------------------------------------------------- bounds

\* Longest unencoded input drawn over ByteVals.
MaxLen == 4

\* Longest encoded buffer (terminator included) drawn over EncChars.
MaxEncLen == 6

\* Iterations of b64dec's loop that are followed before the model leaves it.
MaxIters == 3

\* ------------------------------------------------------- platform and data

\* size_t is an unsigned 16-bit integer on the AVR boards Arduino.h targets:
\* size_t arithmetic is arithmetic modulo SizeMod.
SizeMod == 65536

\* const char b64map[] = "ABC...+/": 64 characters and the literal's '\0'.
b64map ==
  << 65, 66, 67, 68, 69, 70, 71, 72, 73, 74, 75, 76, 77,
     78, 79, 80, 81, 82, 83, 84, 85, 86, 87, 88, 89, 90,
     97, 98, 99, 100, 101, 102, 103, 104, 105, 106, 107, 108, 109,
     110, 111, 112, 113, 114, 115, 116, 117, 118, 119, 120, 121, 122,
     48, 49, 50, 51, 52, 53, 54, 55, 56, 57, 43, 47, 0 >>

\* const char b64pad = '='.
b64pad == 61

\* What a read outside every object, or a pointer difference with NULL, may
\* yield: a byte of each kind the code tells apart ('\0', '=', a character
\* outside the alphabet with bit 6 set, 'A', and two bytes with bit 7 set).
Indeterminate == {0, 61, 64, 65, 128, 255}

\* Byte values the unencoded inputs are drawn from: '\0', 'f', 0x80, 0xFF.
ByteVals == {0, 102, 128, 255}

\* Characters the encoded inputs are drawn from: '\0', '!', '=', 'Z'.
EncChars == {0, 33, 61, 90}

RECURSIVE SeqsUpTo(_, _)
SeqsUpTo(S, n) ==
  IF n = 0 THEN {<< >>}
  ELSE LET shorter == SeqsUpTo(S, n - 1)
       IN  shorter \cup {Append(s, x) : s \in {t \in shorter : Len(t) = n - 1}, x \in S}

\* The unencoded inputs: every sequence over ByteVals up to MaxLen, and the
\* texts "f", "fo", "foo", "foobar".
UnencInputs ==
  SeqsUpTo(ByteVals, MaxLen)
    \cup {<<102>>, <<102, 111>>, <<102, 111, 111>>, <<102, 111, 111, 98, 97, 114>>}

\* The encoded inputs: every sequence over EncChars up to MaxEncLen, and the
\* strings "Zg==", "Zm8=", "Zm9v", "Zm9vYmFy", "Zm9vYg==", "Zm9vYm8=" with
\* their terminator.
EncInputs ==
  SeqsUpTo(EncChars, MaxEncLen)
    \cup {<<90, 103, 61, 61, 0>>, <<90, 109, 56, 61, 0>>, <<90, 109, 57, 118, 0>>,
          <<90, 109, 57, 118, 89, 109, 70, 121, 0>>,
          <<90, 109, 57, 118, 89, 103, 61, 61, 0>>,
          <<90, 109, 57, 118, 89, 109, 56, 61, 0>>}

\* ------------------------------------------------------------ C arithmetic

\* x converted to size_t.
ToSize(x) == x % SizeMod

\* x converted to unsigned char.
ToU8(x) == x % 256

\* x >> k on an int: for a negative x the compilers of the supported boards
\* shift arithmetically (\div rounds down).
Shr(x, k) == x \div (2 ^ k)

\* x & (2^k - 1) on a two's complement int.
LowBits(x, k) == x % (2 ^ k)

RECURSIVE BitOr(_, _)
\* a | b on non-negative ints.
BitOr(a, b) ==
  IF a = 0 THEN b
  ELSE IF b = 0 THEN a
  ELSE (IF a % 2 = 1 \/ b % 2 = 1 THEN 1 ELSE 0) + 2 * BitOr(a \div 2, b \div 2)

\* (unsigned char)(a | b) for ints a, b of either sign: | acts bit by bit, so
\* the low 8 bits of the result are the | of the low 8 bits.
Or8(a, b) == BitOr(ToU8(a), ToU8(b))

\* ------------------------------------------------------------------ state

VARIABLES
  charSigned,  \* whether the build's plain char is signed
  pc,          \* "idle", "enc_loop", "dec_loop" or "done"
  fn,          \* the function that was called, "none" when idle
  roundtrip,   \* whether b64dec is decoding what b64enc just wrote
  len_arg,     \* the size_t length argument of the call
  unenc,       \* the unencoded buffer
  enc,         \* the encoded buffer
  dec,         \* the decoded buffer
  i,           \* int i of b64enc and of b64dec
  j,           \* int j of b64enc and of b64dec
  padded,      \* int padded of b64dec
  iters,       \* loop iterations run by the call
  ret,         \* the value returned (0 until the call returns)
  written,     \* indices of the destination buffer the call has stored to
  oobRead,     \* the call has read an input buffer outside its declared length
  oobWrite,    \* the call has stored outside the destination buffer
  badIndex,    \* the call has indexed b64map outside its 64 characters
  wild         \* the byte a read outside every object yields during the call

vars ==
  << charSigned, pc, fn, roundtrip, len_arg, unenc, enc, dec, i, j, padded,
     iters, ret, written, oobRead, oobWrite, badIndex, wild >>

\* A buffer of n bytes the caller has not filled.
Fresh(n) == [k \in 1..n |-> 255]

\* buf[k], or g when k is outside the buffer.
Load(buf, k, g) == IF k >= 0 /\ k < Len(buf) THEN buf[k + 1] ELSE g

\* The int a plain char holding byte b promotes to.
CharVal(b) == IF charSigned /\ b >= 128 THEN b - 256 ELSE b

\* b64map[idx] for an unsigned char idx; b64map has 65 elements.
MapAt(idx, g) == IF idx < Len(b64map) THEN b64map[idx + 1] ELSE g

\* strchr(b64map, c) - b64map as stored in an unsigned char: the place of
\* the first c in b64map (the terminator is found for c = '\0'), and
\* NULL - b64map when there is none.
Strchr(c, g) ==
  IF \E k \in 1..Len(b64map) : b64map[k] = c
  THEN (CHOOSE k \in 1..Len(b64map) :
          b64map[k] = c /\ \A h \in 1..(k - 1) : b64map[h] # c) - 1
  ELSE g

\* ------------------------------------------------------------- b64enclen

B64enclen(unenc_len) == ToSize((ToSize(unenc_len + 2) \div 3) * 4 + 1)

\* ------------------------------------------------------------- b64declen

\* B64declen without the (enc_len - 1) % 4 check.
B64declen_NoModCheck(e, g) ==
  LET m == Len(e)
      p1 == IF Load(e, ToSize(m - 2), g) = b64pad THEN 1 ELSE 0
      p2 == IF Load(e, ToSize(m - 3), g) = b64pad THEN 1 ELSE 0
  IN  IF Load(e, ToSize(m - 1), g) # 0 THEN 0
      ELSE IF m < 4 THEN 0
      ELSE ToSize((ToSize(m - 1) \div 4) * 3 - p1 - p2)

\* B64declen looking for padding at enc[enc_len - 2] only.
B64declen_OnePad(e, g) ==
  LET m == Len(e)
      p1 == IF Load(e, ToSize(m - 2), g) = b64pad THEN 1 ELSE 0
  IN  IF Load(e, ToSize(m - 1), g) # 0 THEN 0
      ELSE IF m < 4 THEN 0
      ELSE IF ToSize(m - 1) % 4 # 0 THEN 0
      ELSE ToSize((ToSize(m - 1) \div 4) * 3 - p1)

\* b64declen(e, Len(e)); g is what a read outside e yields.
B64declen(e, g) ==
  LET m == Len(e)
      p1 == IF Load(e, ToSize(m - 2), g) = b64pad THEN 1 ELSE 0
      p2 == IF Load(e, ToSize(m - 3), g) = b64pad THEN 1 ELSE 0
  IN  IF Load(e, ToSize(m - 1), g) # 0 THEN 0
      ELSE IF m < 4 THEN 0
      ELSE IF ToSize(m - 1) % 4 # 0 THEN 0
      ELSE ToSize((ToSize(m - 1) \div 4) * 3 - p1 - p2)

\* ---------------------------------------------------------------- b64dec

\* BadLength without the terminator subtracted.
BadLength_NoTerminator(enc_len) == ToSize(enc_len) % 4 # 0

\* if ((enc_len - 1) %4 != 0) return 0;
BadLength(enc_len) == ToSize(enc_len - 1) % 4 # 0

\* i<enc_len - padded - 4, compared as size_t.
DecLoopCond == ToSize(i) < ToSize(Len(enc) - padded - 4)

\* i<unenc_len - remainder, compared as size_t.
EncLoopCond == ToSize(i) < ToSize(Len(unenc) - (Len(unenc) % 3))

\* buf after buf[k] = cs[1]; buf[k+1] = cs[2]; ...; stores outside the
\* buffer are not kept.
StoreSeq(buf, k, cs) ==
  [p \in 1..Len(buf) |->
     IF p - 1 >= k /\ p - 1 < k + Len(cs) THEN cs[p - k] ELSE buf[p]]

\* The four statements filling buffer[0..3] in b64enc, from the promoted
\* values of unenc[i], unenc[i+1], unenc[i+2].
EncBuffer0(u0) == ToU8(Shr(u0, 2))
EncBuffer1(u0, u1) == Or8(LowBits(u0, 2) * 16, Shr(u1, 4))
EncBuffer2(u1, u2) == Or8(LowBits(u1, 4) * 4, Shr(u2, 6))
EncBuffer3(u2) == ToU8(LowBits(u2, 6))

\* The three statements of b64dec storing to dec[j++], from buffer[0..3].
DecByte0(b0, b1) == ToU8(BitOr(b0 * 4, b1 \div 16))
DecByte1(b1, b2) == ToU8(BitOr(b1 * 16, b2 \div 4))
DecByte2(b2, b3) == ToU8(BitOr(b2 * 64, b3))

\* ------------------------------------------------------------------- Init

Idle ==
  /\ pc = "idle" /\ fn = "none" /\ roundtrip = FALSE /\ len_arg = 0
  /\ unenc = << >> /\ enc = << >> /\ dec = << >>
  /\ i = 0 /\ j = 0 /\ padded = 0 /\ iters = 0 /\ ret = 0
  /\ written = {} /\ oobRead = FALSE /\ oobWrite = FALSE /\ badIndex = FALSE
  /\ wild = 0

Init == charSigned \in BOOLEAN /\ Idle

\* ---------------------------------------------------------------- actions

\* size_t b64enclen(size_t unenc_len), called with n.
CallEncLen(n) ==
  /\ pc = "idle"
  /\ pc' = "done" /\ fn' = "b64enclen" /\ len_arg' = n
  /\ ret' = B64enclen(n)
  /\ UNCHANGED << charSigned, roundtrip, unenc, enc, dec, i, j, padded, iters,
                  written, oobRead, oobWrite, badIndex, wild >>

\* size_t b64declen(char * enc, size_t enc_len), called with e and Len(e).
CallDecLen(e) ==
  /\ pc = "idle"
  /\ pc' = "done" /\ fn' = "b64declen" /\ len_arg' = Len(e) /\ enc' = e
  /\ \E g \in Indeterminate : wild' = g /\ ret' = B64declen(e, g)
  /\ oobRead' = (ToSize(Len(e) - 1) >= Len(e))
  /\ UNCHANGED << charSigned, roundtrip, unenc, dec, i, j, padded, iters,
                  written, oobWrite, badIndex >>

\* int b64enc(char *unenc, char *enc, size_t unenc_len) up to its loop,
\* called with b, a buffer of b64enclen(Len(b)) characters and Len(b).
CallEnc(b) ==
  /\ pc = "idle"
  /\ pc' = "enc_loop" /\ fn' = "b64enc" /\ len_arg' = Len(b)
  /\ unenc' = b /\ enc' = Fresh(B64enclen(Len(b)))
  /\ i' = 0 /\ j' = 0
  /\ wild' \in Indeterminate
  /\ UNCHANGED << charSigned, roundtrip, dec, padded, iters, ret, written,
                  oobRead, oobWrite, badIndex >>

\* One iteration of b64enc's for loop.
EncLoop ==
  /\ pc = "enc_loop"
  /\ EncLoopCond
  /\ LET g == wild
         u0 == CharVal(Load(unenc, i, g))
         u1 == CharVal(Load(unenc, i + 1, g))
         u2 == CharVal(Load(unenc, i + 2, g))
         b0 == EncBuffer0(u0)
         b1 == EncBuffer1(u0, u1)
         b2 == EncBuffer2(u1, u2)
         b3 == EncBuffer3(u2)
     IN  /\ enc' = StoreSeq(enc, j, << MapAt(b0, g), MapAt(b1, g),
                                       MapAt(b2, g), MapAt(b3, g) >>)
         /\ badIndex' = (badIndex \/ b0 > 63 \/ b1 > 63 \/ b2 > 63 \/ b3 > 63)
  /\ oobRead' = (oobRead \/ i + 2 >= Len(unenc))
  /\ oobWrite' = (oobWrite \/ j + 3 >= Len(enc))
  /\ written' = written \cup (j..(j + 3))
  /\ i' = i + 3 /\ j' = j + 4 /\ iters' = iters + 1
  /\ UNCHANGED << charSigned, pc, fn, roundtrip, len_arg, unenc, dec, padded,
                  ret, wild >>

\* EncTailChars with case 1 storing a single padding character.
EncTailChars_OnePad(g) ==
  LET u0 == CharVal(Load(unenc, i, g))
      u1 == CharVal(Load(unenc, i + 1, g))
      u2 == CharVal(Load(unenc, i + 2, g))
  IN  CASE Len(unenc) % 3 = 2 ->
             << MapAt(EncBuffer0(u0), g), MapAt(EncBuffer1(u0, u1), g),
                MapAt(EncBuffer2(u1, u2), g), b64pad >>
        [] Len(unenc) % 3 = 1 ->
             << MapAt(EncBuffer0(u0), g), MapAt(ToU8(LowBits(u0, 2) * 16), g),
                b64pad >>
        [] OTHER -> << >>

\* The characters b64enc's switch (remainder) stores.
EncTailChars(g) ==
  LET u0 == CharVal(Load(unenc, i, g))
      u1 == CharVal(Load(unenc, i + 1, g))
      u2 == CharVal(Load(unenc, i + 2, g))
  IN  CASE Len(unenc) % 3 = 2 ->
             << MapAt(EncBuffer0(u0), g), MapAt(EncBuffer1(u0, u1), g),
                MapAt(EncBuffer2(u1, u2), g), b64pad >>
        [] Len(unenc) % 3 = 1 ->
             << MapAt(EncBuffer0(u0), g), MapAt(ToU8(LowBits(u0, 2) * 16), g),
                b64pad, b64pad >>
        [] OTHER -> << >>

\* The b64map indices b64enc's switch (remainder) uses.
EncTailIndices(g) ==
  LET u0 == CharVal(Load(unenc, i, g))
      u1 == CharVal(Load(unenc, i + 1, g))
      u2 == CharVal(Load(unenc, i + 2, g))
  IN  CASE Len(unenc) % 3 = 2 ->
             {EncBuffer0(u0), EncBuffer1(u0, u1), EncBuffer2(u1, u2)}
        [] Len(unenc) % 3 = 1 -> {EncBuffer0(u0), ToU8(LowBits(u0, 2) * 16)}
        [] OTHER -> {}

\* b64enc after its loop: the switch, the terminator and the return.
EncTail ==
  /\ pc = "enc_loop"
  /\ ~EncLoopCond
  /\ LET cs == EncTailChars(wild)
     IN  /\ enc' = StoreSeq(enc, j, Append(cs, 0))
         /\ j' = j + Len(cs)
         /\ ret' = j + Len(cs)
         /\ written' = written \cup (j..(j + Len(cs)))
         /\ oobWrite' = (oobWrite \/ j + Len(cs) >= Len(enc))
         /\ badIndex' = (badIndex \/ \E x \in EncTailIndices(wild) : x > 63)
  /\ oobRead' = (oobRead \/ (Len(unenc) % 3 = 2 /\ i + 2 >= Len(unenc)))
  /\ pc' = "done"
  /\ UNCHANGED << charSigned, fn, roundtrip, len_arg, unenc, dec, i, padded,
                  iters, wild >>

\* int b64dec(char *enc, char *dec, size_t enc_len) up to its loop, called
\* with e, a destination of cap bytes and Len(e): the length check and the
\* count of padding characters.
DecEnter(e, cap) ==
  /\ fn' = "b64dec" /\ len_arg' = Len(e)
  /\ enc' = e /\ dec' = Fresh(cap)
  /\ i' = 0 /\ j' = 0 /\ iters' = 0 /\ ret' = 0
  /\ written' = {} /\ oobWrite' = FALSE /\ badIndex' = FALSE
  /\ IF BadLength(Len(e))
     THEN pc' = "done" /\ padded' = 0 /\ oobRead' = FALSE /\ wild' = 0
     ELSE /\ pc' = "dec_loop"
          /\ \E g \in Indeterminate, h \in Indeterminate :
               /\ wild' = g
               /\ padded' =
                    (IF Load(e, ToSize(Len(e) - 2), g) = b64pad THEN 1 ELSE 0)
                    + (IF Load(e, ToSize(Len(e) - 3), h) = b64pad THEN 1 ELSE 0)
          /\ oobRead' = (ToSize(Len(e) - 2) >= Len(e) \/ ToSize(Len(e) - 3) >= Len(e))

\* The destination a caller reserves for e: b64declen's result, and room for
\* three bytes per four characters when b64declen reports 0.
DestSize(e) ==
  IF B64declen(e, 0) > 0 THEN B64declen(e, 0) ELSE ((Len(e) \div 4) + 1) * 3

\* b64dec called on an encoded buffer e.
CallDec(e) ==
  /\ pc = "idle"
  /\ DecEnter(e, DestSize(e))
  /\ UNCHANGED << charSigned, roundtrip, unenc >>

\* b64dec called on what b64enc wrote, with enc_len = b64enclen(unenc_len)
\* and a destination of unenc_len bytes.
RoundTripDec ==
  /\ pc = "done" /\ fn = "b64enc"
  /\ DecEnter(enc, Len(unenc))
  /\ roundtrip' = TRUE
  /\ UNCHANGED << charSigned, unenc >>

\* One iteration of b64dec's for loop.
DecLoop ==
  /\ pc = "dec_loop"
  /\ DecLoopCond
  /\ iters < MaxIters
  /\ LET g == wild
         b0 == Strchr(Load(enc, i, g), g)
         b1 == Strchr(Load(enc, i + 1, g), g)
         b2 == Strchr(Load(enc, i + 2, g), g)
         b3 == Strchr(Load(enc, i + 3, g), g)
     IN  dec' = StoreSeq(dec, j, << DecByte0(b0, b1), DecByte1(b1, b2),
                                    DecByte2(b2, b3) >>)
  /\ oobRead' = (oobRead \/ i + 3 >= Len(enc))
  /\ oobWrite' = (oobWrite \/ j + 2 >= Len(dec))
  /\ written' = written \cup (j..(j + 2))
  /\ i' = i + 4 /\ j' = j + 3 /\ iters' = iters + 1
  /\ UNCHANGED << charSigned, pc, fn, roundtrip, len_arg, unenc, enc, padded,
                  ret, badIndex, wild >>

\* The bytes b64dec's switch (padded) stores.
DecTailBytes(g) ==
  LET b0 == Strchr(Load(enc, i, g), g)
      b1 == Strchr(Load(enc, i + 1, g), g)
      b2 == Strchr(Load(enc, i + 2, g), g)
  IN  CASE padded = 1 -> << DecByte0(b0, b1), DecByte1(b1, b2) >>
        [] padded = 2 -> << DecByte0(b0, b1) >>
        [] OTHER -> << >>

\* b64dec after its loop: the switch and the return.
DecTail ==
  /\ pc = "dec_loop"
  /\ ~DecLoopCond
  /\ LET ds == DecTailBytes(wild)
     IN  /\ dec' = StoreSeq(dec, j, ds)
         /\ j' = j + Len(ds)
         /\ ret' = j + Len(ds)
         /\ written' = written \cup (j..(j + Len(ds) - 1))
         /\ oobWrite' = (oobWrite \/ (Len(ds) > 0 /\ j + Len(ds) - 1 >= Len(dec)))
  /\ oobRead' = (oobRead \/ (padded > 0 /\ i + 3 - padded >= Len(enc)))
  /\ pc' = "done"
  /\ UNCHANGED << charSigned, fn, roundtrip, len_arg, unenc, enc, i, padded,
                  iters, badIndex, wild >>

\* The caller is done with the result; the next call starts afresh.
Reset ==
  /\ pc = "done"
  /\ pc' = "idle" /\ fn' = "none" /\ roundtrip' = FALSE /\ len_arg' = 0
  /\ unenc' = << >> /\ enc' = << >> /\ dec' = << >>
  /\ i' = 0 /\ j' = 0 /\ padded' = 0 /\ iters' = 0 /\ ret' = 0
  /\ written' = {} /\ oobRead' = FALSE /\ oobWrite' = FALSE /\ badIndex' = FALSE
  /\ wild' = 0
  /\ UNCHANGED charSigned

\* Lengths b64enclen is called with.
LenArgs == (0..(MaxLen + 2)) \cup {100}

Next ==
  \/ pc = "idle" /\ \E n \in LenArgs : CallEncLen(n)
  \/ pc = "idle" /\ \E e \in EncInputs : CallDecLen(e)
  \/ pc = "idle" /\ \E b \in UnencInputs : CallEnc(b)
  \/ EncLoop
  \/ EncTail
  \/ pc = "idle" /\ \E e \in EncInputs : CallDec(e)
  \/ RoundTripDec
  \/ DecLoop
  \/ DecTail
  \/ Reset

Spec == Init /\ [][Next]_vars

\* ------------------------------------------------------------ properties

\* The 64 characters of the base64 alphabet.
Alphabet == {b64map[k] : k \in 1..64}

RECURSIVE Rfc4648(_)
\* The padded base64 text of RFC 4648 for the bytes b, by arithmetic on the
\* byte values.
Rfc4648(b) ==
  IF Len(b) = 0 THEN << >>
  ELSE IF Len(b) = 1
    THEN << b64map[(b[1] \div 4) + 1], b64map[(b[1] % 4) * 16 + 1], b64pad, b64pad >>
  ELSE IF Len(b) = 2
    THEN << b64map[(b[1] \div 4) + 1],
            b64map[(b[1] % 4) * 16 + (b[2] \div 16) + 1],
            b64map[(b[2] % 16) * 4 + 1], b64pad >>
  ELSE << b64map[(b[1] \div 4) + 1],
          b64map[(b[1] % 4) * 16 + (b[2] \div 16) + 1],
          b64map[(b[2] % 16) * 4 + (b[3] \div 64) + 1],
          b64map[(b[3] % 64) + 1] >> \o Rfc4648(SubSeq(b, 4, Len(b)))

\* C1: round trip. While b64dec decodes what b64enc wrote for the n bytes
\* of unenc it stores only to dec[0..n-1], and when it returns it returns n
\* and dec holds exactly the bytes of unenc.
C1_RoundTrip ==
  (fn = "b64dec" /\ roundtrip) =>
    /\ written \subseteq 0..(Len(unenc) - 1)
    /\ pc = "done" => (ret = Len(unenc) /\ dec = unenc)

\* C2: when b64enc returns, the characters before the terminator are the
\* RFC 4648 padded encoding of the n input bytes and depend on nothing else.
C2_EncodesRfc4648 ==
  (fn = "b64enc" /\ pc = "done") => SubSeq(enc, 1, ret) = Rfc4648(unenc)

\* C3: b64enclen(n) = ((n + 2) / 3) * 4 + 1 is the count b64enc returns plus
\* one: b64enc stores to exactly enc[0..b64enclen(n)-1], the last store being
\* the terminator, and never at or past index b64enclen(n).
C3_EncoderFillsBuffer ==
  fn = "b64enc" =>
    LET n == Len(unenc)
    IN  /\ B64enclen(n) = ((n + 2) \div 3) * 4 + 1
        /\ written \subseteq 0..(B64enclen(n) - 1)
        /\ ~oobWrite
        /\ pc = "done" =>
             /\ ret + 1 = B64enclen(n)
             /\ written = 0..(B64enclen(n) - 1)
             /\ enc[ret + 1] = 0

\* b64enc has returned 8 for an input of 4 bytes (one full group and one
\* leftover byte), having filled a buffer of b64enclen(4) = 9 characters.
C3_Witness ==
  /\ fn = "b64enc" /\ pc = "done"
  /\ Len(unenc) = 4 /\ ret = 8 /\ Len(enc) = 9 /\ written = 0..8

\* C4: whenever b64declen(enc, m) is k > 0, b64dec(enc, dec, m) stores only
\* to dec[0..k-1], and when it returns it returns k and has stored to every
\* one of dec[0..k-1].
C4_DecoderFillsBuffer ==
  (fn = "b64dec" /\ B64declen(enc, 0) > 0) =>
    LET k == B64declen(enc, 0)
    IN  /\ written \subseteq 0..(k - 1)
        /\ pc = "done" => (ret = k /\ written = 0..(k - 1))

\* The three validity checks of C5, on the encoded buffer of the call.
StructurallyInvalid ==
  \/ Len(enc) < 4
  \/ enc[Len(enc)] # 0
  \/ (Len(enc) - 1) % 4 # 0

\* C5: b64declen returns 0 when the last character is not the terminator, or
\* m < 4, or (m - 1) % 4 # 0, and a non-zero value otherwise.
C5_DeclenValidates ==
  (fn = "b64declen" /\ pc = "done") =>
    /\ StructurallyInvalid => ret = 0
    /\ ~StructurallyInvalid => ret # 0

\* b64declen has returned 0 for a terminated buffer of 6 characters.
C5_Witness ==
  /\ fn = "b64declen" /\ pc = "done"
  /\ Len(enc) = 6 /\ enc[6] = 0 /\ ret = 0

\* C6: for a valid input b64declen returns ((m - 1) / 4) * 3 less one for
\* each of enc[m-2], enc[m-3] that is '='; "Zm9vYmFy" gives 6, "Zg==" gives 1.
C6_DeclenValue ==
  (fn = "b64declen" /\ pc = "done") =>
    /\ ~StructurallyInvalid =>
         LET m == Len(enc)
             pads == (IF enc[m - 1] = 61 THEN 1 ELSE 0)
                     + (IF enc[m - 2] = 61 THEN 1 ELSE 0)
         IN  ret = ((m - 1) \div 4) * 3 - pads
    /\ enc = << 90, 109, 57, 118, 89, 109, 70, 121, 0 >> => ret = 6
    /\ enc = << 90, 103, 61, 61, 0 >> => ret = 1

\* b64declen has returned 1 for "Zg==".
C6_Witness ==
  /\ fn = "b64declen" /\ pc = "done"
  /\ enc = << 90, 103, 61, 61, 0 >> /\ ret = 1

\* C7: for every enc_len with (enc_len - 1) % 4 # 0 in size_t arithmetic,
\* b64dec returns 0 at once and stores nothing to the destination.
C7_DecRejectsLength ==
  (fn = "b64dec" /\ ((len_arg - 1) % SizeMod) % 4 # 0) =>
    /\ pc = "done" /\ ret = 0
    /\ written = {} /\ ~oobWrite
    /\ dec = Fresh(Len(dec))

\* b64dec has returned 0 for enc_len = 0, with a destination of 3 bytes.
C7_Witness ==
  /\ fn = "b64dec" /\ pc = "done"
  /\ len_arg = 0 /\ ret = 0 /\ Len(dec) = 3

\* C8: every index b64enc uses on b64map is in 0..63, every character it has
\* written before the terminator is in the alphabet or is '=', and their
\* count is a multiple of 4.
C8_EncodedAlphabet ==
  fn = "b64enc" =>
    /\ ~badIndex
    /\ pc = "done" =>
         /\ \A k \in 1..ret : enc[k] \in Alphabet \cup {b64pad}
         /\ ret % 4 = 0

\* C9: b64enc has run its loop n / 3 times when it returns, and b64dec, for
\* an enc_len with (enc_len - 1) % 4 = 0, never runs its loop more than
\* (enc_len - 1) / 4 times.
C9_LoopBounds ==
  /\ (fn = "b64enc" /\ pc = "done") => iters = Len(unenc) \div 3
  /\ (fn = "b64dec" /\ len_arg >= 1 /\ (len_arg - 1) % 4 = 0) =>
       iters <= (len_arg - 1) \div 4

\* C10: no call reads an input buffer outside its declared length.
C10_NoReadOutside == ~oobRead

====
